---- MODULE Spec2Model ----
(***************************************************************************)
(* Model of the co-simulation master of fmusdk,                            *)
(* src/co_simulation/fmusim_cs_master/main.c: simulate() and main().       *)
(* One action per statement group of simulate(); the slaves (FMUs), the    *)
(* result files and outputRow() are external and appear as the calls made  *)
(* on them plus a small value store per slave.                             *)
(***************************************************************************)
EXTENDS Integers, Sequences, FiniteSets, TLC

\* ------------------------------------------------------------------ bounds
MaxTEnd == 3        \* tEnd ranges over 0..MaxTEnd (integer ticks)
MaxH == 2           \* h ranges over 0..MaxH
MaxSteps == 3       \* cap on nSteps (only binding when h = 0)
MaxVal == 2         \* slave variable values range over 0..MaxVal
MaxVR == 3          \* value references range over 1..MaxVR

\* ------------------------------------------------------- program constants
fmiOK == 0
fmiWarning == 1
fmiDiscard == 2
fmiError == 3
fmiFatal == 4
Status == {fmiOK, fmiWarning, fmiDiscard, fmiError, fmiFatal}

tStart == 0
EXIT_SUCCESS == 0
NULL == "NULL"

enu_noAlias == "noAlias"
enu_alias == "alias"
enu_negatedAlias == "negatedAlias"

elm_Real == "Real"
elm_Integer == "Integer"
elm_Enumeration == "Enumeration"
elm_Boolean == "Boolean"
elm_String == "String"

Vals == 0..MaxVal
VRefs == 1..MaxVR
Families == {"Real", "Integer", "Boolean", "String"}
Cells == Families \X VRefs

\* ------------------------------------------------ model descriptions (input)
\* One ScalarVariable of a modelDescription: value reference, type, alias kind.
SV(vr, type, alias) == [vr |-> vr, type |-> type, alias |-> alias]

\* The modelVariables arrays the runs draw from.
Tables ==
  { << SV(1, elm_Real, enu_noAlias) >>,
    << SV(1, elm_Real, enu_noAlias), SV(2, elm_Integer, enu_noAlias) >>,
    << SV(1, elm_Integer, enu_alias), SV(1, elm_Real, enu_noAlias) >>,
    << SV(1, elm_Enumeration, enu_noAlias), SV(2, elm_Boolean, enu_noAlias) >>,
    << SV(1, elm_String, enu_noAlias), SV(2, elm_Real, enu_negatedAlias) >>,
    << SV(1, elm_Real, enu_alias) >>,
    << SV(1, elm_Integer, enu_noAlias), SV(1, elm_Real, enu_noAlias) >>,
    << SV(2, elm_Boolean, enu_negatedAlias), SV(2, elm_Integer, enu_noAlias),
       SV(1, elm_Integer, enu_noAlias) >> }

\* The flat connection arrays (fmuFrom, vrFrom, fmuTo, vrTo)* for two slaves.
ConnLists ==
  { << >>,
    << 0, 1, 1, 1 >>,
    << 0, 1, 1, 2 >>,
    << 0, 2, 1, 1 >>,
    << 0, 1, 1, 3 >>,
    << 0, 1, 1, 1,  1, 1, 0, 1 >>,
    << 0, 1, 1, 1,  0, 2, 1, 1 >> }

\* Runs that vary the wiring: one interval.
WiringConfigs ==
  { [N |-> 2, md |-> [j \in 0..1 |-> IF j = 0 THEN a ELSE b],
     connections |-> cl, tEnd |-> 1, h |-> 1] : a \in Tables, b \in Tables, cl \in ConnLists }

\* Runs that vary the clock: a fixed wiring with a cycle between two reals,
\* or a single slave wired to itself.  tEnd and h are whatever the command
\* line gave: an end time before the start, a zero or negative step included.
ClockConfigs ==
  { [N |-> 2,
     md |-> [j \in 0..1 |-> << SV(1, elm_Real, enu_noAlias), SV(2, elm_Real, enu_noAlias) >>],
     connections |-> << 0, 1, 1, 2,  1, 1, 0, 2 >>, tEnd |-> te, h |-> hh]
      : te \in (0 - 1)..MaxTEnd, hh \in (0 - 1)..MaxH }
  \cup
  { [N |-> 1,
     md |-> [j \in 0..0 |-> << SV(1, elm_Integer, enu_noAlias), SV(2, elm_Integer, enu_noAlias) >>],
     connections |-> << 0, 1, 0, 2 >>, tEnd |-> te, h |-> hh]
      : te \in (0 - 1)..MaxTEnd, hh \in (0 - 1)..MaxH }

\* Runs that vary the order of two connections between two slaves with two
\* reals each: a chain (the second reads what the first wrote), two
\* connections into one variable, and each of these with the order swapped.
ChainConfigs ==
  { [N |-> 2,
     md |-> [j \in 0..1 |-> << SV(1, elm_Real, enu_noAlias), SV(2, elm_Real, enu_noAlias) >>],
     connections |-> cl, tEnd |-> 2, h |-> 1]
      : cl \in { << 0, 1, 1, 1,  1, 1, 0, 2 >>,
                 << 1, 1, 0, 2,  0, 1, 1, 1 >>,
                 << 0, 1, 1, 2,  0, 2, 1, 2 >>,
                 << 0, 2, 1, 2,  0, 1, 1, 2 >> } }

Configs == WiringConfigs \cup ClockConfigs \cup ChainConfigs

\* ------------------------------------------------------------------- state
VARIABLES
  N, md, connections, M, tEnd, h,   \* arguments of simulate (fixed during a run)
  pc,                               \* position in simulate / main
  i, ci,                            \* loop indices
  c, files,                         \* slave handles, result files
  time, status, fmiFlag, nSteps,    \* locals of simulate
  svFrom, svTo,                     \* descriptors selected by the last connection scan
  val,                              \* the slaves' variable values
  rows,                             \* what was written to each result file
  calls,                            \* calls made on slaves and on fopen, in order
  diag,                             \* messages printed
  ret, exitCode                     \* simulate's return value, main's return value

args == << N, md, connections, M, tEnd, h >>
vars == << N, md, connections, M, tEnd, h, pc, i, ci, c, files, time, status,
           fmiFlag, nSteps, svFrom, svTo, val, rows, calls, diag, ret, exitCode >>

Comps == 0..(N - 1)

\* One entry of the call log: operation, slave, its arguments, its result,
\* and the number of completed loop iterations when it was made.
Call(op, comp, a, b, res) ==
  [op |-> op, c |-> comp, a |-> a, b |-> b, res |-> res, n |-> nSteps]

\* ----------------------------------------------------- the slaves (external)
\* Start value of a variable after instantiateSlave.
StartVal(comp, cell) == (comp + cell[2]) % (MaxVal + 1)

\* fmiGetXxx(c, &vr, 1, &x): the value of variable vr of that type family.
GetValue(store, comp, fam, vr) == store[comp][<< fam, vr >>]

\* fmiSetXxx(c, &vr, 1, &x).
SetValue(store, comp, fam, vr, v) == [store EXCEPT ![comp][<< fam, vr >>] = v]

\* fmiDoStep accepted: the slave advances; d = 1 when its variables change.
StepValue(store, comp, d) ==
  [store EXCEPT ![comp] = [cell \in Cells |-> (store[comp][cell] + d) % (MaxVal + 1)]]

\* Type family whose getter/setter carries a variable type.
Family(type) ==
  CASE type = elm_Real -> "Real"
    [] type = elm_Integer -> "Integer"
    [] type = elm_Enumeration -> "Integer"
    [] type = elm_Boolean -> "Boolean"
    [] type = elm_String -> "String"
    [] OTHER -> "none"

\* outputRow(fmu, c, t, file, separator, header): one line of the result file,
\* with the values of the non-alias variables in descriptor order.
RECURSIVE RowValues(_, _, _, _)
RowValues(store, comp, tab, k) ==
  IF k > Len(tab) THEN << >>
  ELSE IF tab[k].alias # enu_noAlias THEN RowValues(store, comp, tab, k + 1)
  ELSE << GetValue(store, comp, Family(tab[k].type), tab[k].vr) >>
         \o RowValues(store, comp, tab, k + 1)

outputRow(comp, t, header) ==
  [header |-> header, t |-> t,
   values |-> IF header THEN << >> ELSE RowValues(val, comp, md[comp], 1)]

\* -------------------------------------------------------------------- Init
\* main up to the call of simulate (parseArguments2, loadFMU2) and the
\* declarations and callocs at the top of simulate.
Init ==
  /\ \E cfg \in Configs :
        /\ N = cfg.N
        /\ md = cfg.md
        /\ connections = cfg.connections
        /\ M = Len(cfg.connections) \div 4
        /\ tEnd = cfg.tEnd
        /\ h = cfg.h
  /\ pc = "instantiate"
  /\ i = 0
  /\ ci = 0
  /\ c = [j \in Comps |-> NULL]
  /\ files = [j \in Comps |-> NULL]
  /\ time = tStart
  /\ status = fmiOK
  /\ fmiFlag = fmiOK
  /\ nSteps = 0
  /\ svFrom = 0
  /\ svTo = 0
  /\ val = [j \in Comps |-> [cell \in Cells |-> 0]]
  /\ rows = [j \in Comps |-> << >>]
  /\ calls = << >>
  /\ diag = << >>
  /\ ret = -1
  /\ exitCode = -1

\* ------------------------------------------------- simulate: the init loop
\* return error("could not instantiate model"), return 0: simulate is left at
\* once, with the failure value.
ReturnFailure ==
  /\ ret' = 0
  /\ pc' = "returned"

\* c[i] = fmus[i]->instantiateSlave(...); if (!c[i]) return error(...)
InstantiateSlave ==
  /\ pc = "instantiate"
  /\ i < N
  /\ \E res \in {NULL, "handle"} :
        /\ c' = [c EXCEPT ![i] = res]
        /\ calls' = Append(calls, Call("instantiateSlave", i, 0, 0, res))
        /\ IF res = NULL
             THEN /\ diag' = Append(diag, "could not instantiate model")
                  /\ ReturnFailure
                  /\ UNCHANGED val
             ELSE /\ val' = [val EXCEPT ![i] = [cell \in Cells |-> StartVal(i, cell)]]
                  /\ pc' = "fopen"
                  /\ UNCHANGED << diag, ret >>
  /\ UNCHANGED << args, i, ci, files, time, status, fmiFlag, nSteps, svFrom, svTo,
                  rows, exitCode >>

\* Variant of OpenResultFile that does not test what fopen returned.
OpenResultFileUnchecked ==
  /\ pc = "fopen"
  /\ \E res \in {NULL, "file"} :
        /\ files' = [files EXCEPT ![i] = res]
        /\ calls' = Append(calls, Call("fopen", i, 0, 0, res))
  /\ pc' = "initialize"
  /\ UNCHANGED << args, i, ci, c, time, status, fmiFlag, nSteps, svFrom, svTo,
                  val, rows, diag, ret, exitCode >>

\* if (!(files[i] = fopen(fileNames[i], "w"))) { printf(...); return 0; }
OpenResultFile ==
  /\ pc = "fopen"
  /\ \E res \in {NULL, "file"} :
        /\ files' = [files EXCEPT ![i] = res]
        /\ calls' = Append(calls, Call("fopen", i, 0, 0, res))
        /\ IF res = NULL
             THEN /\ diag' = Append(diag, "could not write result file")
                  /\ ReturnFailure
             ELSE /\ pc' = "initialize"
                  /\ UNCHANGED << diag, ret >>
  /\ UNCHANGED << args, i, ci, c, time, status, fmiFlag, nSteps, svFrom, svTo,
                  val, rows, exitCode >>

\* Variant of InitializeFailed that lets fmiDiscard pass.
InitializeFailedAboveDiscard(flag) == flag > fmiDiscard

\* Variant of InitializeFailed that rejects nothing.
InitializeFailedNever(flag) == flag > fmiFatal

\* The test on the status of initializeSlave.
InitializeFailed(flag) == flag > fmiWarning

\* fmiFlag = fmus[i]->initializeSlave(c[i], tStart, fmiTrue, tEnd);
\* if (fmiFlag > fmiWarning) { printf(...); return 0; }
InitializeSlave ==
  /\ pc = "initialize"
  /\ \E flag \in Status :
        /\ fmiFlag' = flag
        /\ calls' = Append(calls, Call("initializeSlave", i, tStart, tEnd, flag))
        /\ IF InitializeFailed(flag)
             THEN /\ diag' = Append(diag, "Could not initialize model")
                  /\ ReturnFailure
             ELSE /\ pc' = "outputRow0"
                  /\ UNCHANGED << diag, ret >>
  /\ UNCHANGED << args, i, ci, c, files, time, status, nSteps, svFrom, svTo,
                  val, rows, exitCode >>

\* outputRow(..., tStart, ..., TRUE); outputRow(..., tStart, ..., FALSE); i++
OutputInitialRows ==
  /\ pc = "outputRow0"
  /\ rows' = [rows EXCEPT ![i] = @ \o << outputRow(i, tStart, TRUE),
                                         outputRow(i, tStart, FALSE) >>]
  /\ i' = i + 1
  /\ pc' = IF i + 1 < N THEN "instantiate" ELSE "enterLoop"
  /\ UNCHANGED << args, ci, c, files, time, status, fmiFlag, nSteps, svFrom, svTo,
                  val, calls, diag, ret, exitCode >>

\* time = tStart; ... int found = 0;
EnterLoop ==
  /\ pc = "enterLoop"
  /\ time' = tStart
  /\ pc' = "loop"
  /\ UNCHANGED << args, i, ci, c, files, status, fmiFlag, nSteps, svFrom, svTo,
                  val, rows, calls, diag, ret, exitCode >>

\* ------------------------------------------------ simulate: the main loop
\* Variant of LoopCondition that also runs an interval starting at tEnd.
LoopConditionInclusive(t, st) == t <= tEnd /\ st = fmiOK

\* while (time < tEnd && status == fmiOK)
LoopCondition(t, st) == t < tEnd /\ st = fmiOK

\* Variant of Flow with the advance of time ahead of the step loop.
FlowAdvanceFirst(at) ==
  CASE at = "loop" -> (IF M > 0 THEN "exchange" ELSE "advance")
    [] at = "exchange" -> "advance"
    [] at = "advance" -> "doStep"
    [] at = "doStep" -> "outputRow"
    [] at = "outputRow" -> "loop"

\* Variant of Flow with the step loop ahead of the connection loop.
FlowStepFirst(at) ==
  CASE at = "loop" -> "doStep"
    [] at = "doStep" -> (IF M > 0 THEN "exchange" ELSE "advance")
    [] at = "exchange" -> "advance"
    [] at = "advance" -> "outputRow"
    [] at = "outputRow" -> "loop"

\* The order of the phases of one loop iteration: from the loop test to the
\* connection loop (when there are connections), then the step loop, then
\* the advance of time, then the output loop, then the loop test again.
Flow(at) ==
  CASE at = "loop" -> (IF M > 0 THEN "exchange" ELSE "doStep")
    [] at = "exchange" -> "doStep"
    [] at = "doStep" -> "advance"
    [] at = "advance" -> "outputRow"
    [] at = "outputRow" -> "loop"

LoopTest ==
  /\ pc = "loop"
  /\ nSteps < MaxSteps \/ ~LoopCondition(time, status)
  /\ IF LoopCondition(time, status)
       THEN /\ pc' = Flow("loop")
            /\ ci' = 0
            /\ i' = 0
       ELSE /\ pc' = "terminate"
            /\ i' = 0
            /\ UNCHANGED ci
  /\ UNCHANGED << args, c, files, time, status, fmiFlag, nSteps, svFrom, svTo,
                  val, rows, calls, diag, ret, exitCode >>

\* Variant of IsNoAlias that filters plain aliases only.
IsNotPlainAlias(sv) == sv.alias # enu_alias

\* if (getAlias(sv) != enu_noAlias) continue;
IsNoAlias(sv) == sv.alias = enu_noAlias

\* if (svFrom->typeSpec->type == svFrom->typeSpec->type)
TypesEqual(from, to) == from.type = from.type

\* The inner scan, for (l = ...; !found && modelVariables[l]; l++): the first
\* descriptor of the target table that passes the alias test and the type
\* test (0 when none), and the number of "incompatible data types" messages.
RECURSIVE ScanTo(_, _, _)
ScanTo(from, tabTo, l) ==
  IF l > Len(tabTo) THEN [l |-> 0, nd |-> 0]
  ELSE IF ~IsNoAlias(tabTo[l]) THEN ScanTo(from, tabTo, l + 1)
  ELSE IF TypesEqual(from, tabTo[l]) THEN [l |-> l, nd |-> 0]
  ELSE LET r == ScanTo(from, tabTo, l + 1) IN [l |-> r.l, nd |-> r.nd + 1]

\* The outer scan, for (k = ...; !found && modelVariables[k]; k++): every
\* non-alias source descriptor with value reference vrFrom starts an inner
\* scan, until one of them finds a target.
RECURSIVE ScanFrom(_, _, _, _)
ScanFrom(tabFrom, tabTo, vrFrom, k) ==
  IF k > Len(tabFrom) THEN [k |-> 0, l |-> 0, nd |-> 0]
  ELSE IF ~IsNoAlias(tabFrom[k]) THEN ScanFrom(tabFrom, tabTo, vrFrom, k + 1)
  ELSE IF vrFrom = tabFrom[k].vr
    THEN LET r == ScanTo(tabFrom[k], tabTo, 1) IN
         IF r.l # 0 THEN [k |-> k, l |-> r.l, nd |-> r.nd]
         ELSE LET q == ScanFrom(tabFrom, tabTo, vrFrom, k + 1) IN
              [k |-> q.k, l |-> q.l, nd |-> r.nd + q.nd]
  ELSE ScanFrom(tabFrom, tabTo, vrFrom, k + 1)

\* Variant of Transfer whose Real case lacks its break and runs on into the
\* Integer case.
TransferFallThrough(store, type, fmuFrom, vrFrom, fmuTo, vrTo) ==
  LET fam == Family(type)
      x == GetValue(store, fmuFrom, fam, vrFrom)
      y == GetValue(store, fmuFrom, "Integer", vrFrom)
  IN  IF fam = "none"
        THEN [calls |-> << >>, val |-> store, diag |-> << "Unrecognized file type" >>]
        ELSE IF fam = "Real"
        THEN [calls |-> << Call("getReal", fmuFrom, vrFrom, x, fmiOK),
                           Call("setReal", fmuTo, vrTo, x, fmiOK),
                           Call("getInteger", fmuFrom, vrFrom, y, fmiOK),
                           Call("setInteger", fmuTo, vrTo, y, fmiOK) >>,
              val |-> SetValue(SetValue(store, fmuTo, "Real", vrTo, x),
                               fmuTo, "Integer", vrTo, y),
              diag |-> << >>]
        ELSE [calls |-> << Call("get" \o fam, fmuFrom, vrFrom, x, fmiOK),
                           Call("set" \o fam, fmuTo, vrTo, x, fmiOK) >>,
              val |-> SetValue(store, fmuTo, fam, vrTo, x),
              diag |-> << >>]

\* Variant of Transfer that hands the source's value reference to the setter.
TransferSourceRef(store, type, fmuFrom, vrFrom, fmuTo, vrTo) ==
  LET fam == Family(type)
      x == GetValue(store, fmuFrom, fam, vrFrom)
  IN  IF fam = "none"
        THEN [calls |-> << >>, val |-> store, diag |-> << "Unrecognized file type" >>]
        ELSE [calls |-> << Call("get" \o fam, fmuFrom, vrFrom, x, fmiOK),
                           Call("set" \o fam, fmuTo, vrFrom, x, fmiOK) >>,
              val |-> SetValue(store, fmuTo, fam, vrFrom, x),
              diag |-> << >>]

\* switch (svFrom->typeSpec->type): the getter on the source, then the setter
\* on the target, of the family of the source descriptor's type.
Transfer(store, type, fmuFrom, vrFrom, fmuTo, vrTo) ==
  LET fam == Family(type)
      x == GetValue(store, fmuFrom, fam, vrFrom)
  IN  IF fam = "none"
        THEN [calls |-> << >>, val |-> store, diag |-> << "Unrecognized file type" >>]
        ELSE [calls |-> << Call("get" \o fam, fmuFrom, vrFrom, x, fmiOK),
                           Call("set" \o fam, fmuTo, vrTo, x, fmiOK) >>,
              val |-> SetValue(store, fmuTo, fam, vrTo, x),
              diag |-> << >>]

\* The fields of connection number cn of the flat connections array.
ConnFmuFrom(cn) == connections[cn * 4 + 1]
ConnVrFrom(cn) == connections[cn * 4 + 2]
ConnFmuTo(cn) == connections[cn * 4 + 3]
ConnVrTo(cn) == connections[cn * 4 + 4]

Repeat(msg, n) == [j \in 1..n |-> msg]

\* Variant of Exchange that walks the connection list from its end.
ExchangeReversed ==
  /\ pc = "exchange"
  /\ ci < M
  /\ LET cn == M - 1 - ci
         r == ScanFrom(md[ConnFmuFrom(cn)], md[ConnFmuTo(cn)], ConnVrFrom(cn), 1)
         x == Transfer(val, md[ConnFmuFrom(cn)][r.k].type,
                       ConnFmuFrom(cn), ConnVrFrom(cn), ConnFmuTo(cn), ConnVrTo(cn))
         msgs == Repeat("incompatible data types", r.nd)
     IN  /\ svFrom' = r.k
         /\ svTo' = r.l
         /\ IF r.k # 0
              THEN /\ calls' = calls \o x.calls
                   /\ val' = x.val
                   /\ diag' = diag \o msgs \o x.diag
              ELSE /\ diag' = diag \o msgs
                   /\ UNCHANGED << calls, val >>
  /\ ci' = ci + 1
  /\ pc' = IF ci + 1 < M THEN "exchange" ELSE Flow("exchange")
  /\ UNCHANGED << args, i, c, files, time, status, fmiFlag, nSteps, rows, ret, exitCode >>

\* One pass of for (ci = 0; ci < M; ci++): connection ci is looked up and,
\* when found, transferred.
Exchange ==
  /\ pc = "exchange"
  /\ ci < M
  /\ LET r == ScanFrom(md[ConnFmuFrom(ci)], md[ConnFmuTo(ci)], ConnVrFrom(ci), 1)
         x == Transfer(val, md[ConnFmuFrom(ci)][r.k].type,
                       ConnFmuFrom(ci), ConnVrFrom(ci), ConnFmuTo(ci), ConnVrTo(ci))
         msgs == Repeat("incompatible data types", r.nd)
     IN  /\ svFrom' = r.k
         /\ svTo' = r.l
         /\ IF r.k # 0
              THEN /\ calls' = calls \o x.calls
                   /\ val' = x.val
                   /\ diag' = diag \o msgs \o x.diag
              ELSE /\ diag' = diag \o msgs
                   /\ UNCHANGED << calls, val >>
  /\ ci' = ci + 1
  /\ pc' = IF ci + 1 < M THEN "exchange" ELSE Flow("exchange")
  /\ UNCHANGED << args, i, c, files, time, status, fmiFlag, nSteps, rows, ret, exitCode >>

\* Variant of StepFailed that lets fmiWarning pass, as the initialize test does.
StepFailedAboveWarning(flag) == flag > fmiWarning

\* if (fmiFlag != fmiOK)
StepFailed(flag) == flag # fmiOK

\* Variant of DoStep that goes on with the next slave after a rejected step.
DoStepContinue ==
  /\ pc = "doStep"
  /\ i < N
  /\ \E flag \in Status, d \in 0..1 :
        /\ fmiFlag' = flag
        /\ calls' = Append(calls, Call("doStep", i, time, h, flag))
        /\ IF StepFailed(flag)
             THEN /\ status' = flag
                  /\ diag' = Append(diag, "doStep() didn't return fmiOK")
                  /\ UNCHANGED << val, ret >>
             ELSE /\ val' = StepValue(val, i, d)
                  /\ UNCHANGED << status, diag, ret >>
        /\ i' = i + 1
        /\ pc' = IF i + 1 < N THEN "doStep" ELSE Flow("doStep")
  /\ UNCHANGED << args, ci, c, files, time, nSteps, svFrom, svTo, rows, exitCode >>

\* One pass of the step loop: fmiFlag = fmus[i]->doStep(c[i], time, h, fmiTrue);
\* if (fmiFlag != fmiOK) { status = fmiFlag; printf(...); return 0; }
DoStep ==
  /\ pc = "doStep"
  /\ i < N
  /\ \E flag \in Status, d \in 0..1 :
        /\ fmiFlag' = flag
        /\ calls' = Append(calls, Call("doStep", i, time, h, flag))
        /\ IF StepFailed(flag)
             THEN /\ status' = flag
                  /\ diag' = Append(diag, "doStep() didn't return fmiOK")
                  /\ ReturnFailure
                  /\ UNCHANGED << val, i >>
             ELSE /\ val' = StepValue(val, i, d)
                  /\ i' = i + 1
                  /\ pc' = IF i + 1 < N THEN "doStep" ELSE Flow("doStep")
                  /\ UNCHANGED << status, diag, ret >>
  /\ UNCHANGED << args, ci, c, files, time, nSteps, svFrom, svTo, rows, exitCode >>

\* Variant of Advance that shortens the last step to land on tEnd.
AdvanceToEnd ==
  /\ pc = "advance"
  /\ time' = IF time + h > tEnd THEN tEnd ELSE time + h
  /\ i' = 0
  /\ pc' = Flow("advance")
  /\ UNCHANGED << args, ci, c, files, status, fmiFlag, nSteps, svFrom, svTo,
                  val, rows, calls, diag, ret, exitCode >>

\* time += h;
Advance ==
  /\ pc = "advance"
  /\ time' = time + h
  /\ i' = 0
  /\ pc' = Flow("advance")
  /\ UNCHANGED << args, ci, c, files, status, fmiFlag, nSteps, svFrom, svTo,
                  val, rows, calls, diag, ret, exitCode >>

\* Variant of OutputRows that writes the time the interval started at.
OutputRowsStartTime ==
  /\ pc = "outputRow"
  /\ i < N
  /\ rows' = [rows EXCEPT ![i] = Append(@, outputRow(i, time - h, FALSE))]
  /\ i' = i + 1
  /\ IF i + 1 < N
       THEN UNCHANGED << pc, nSteps >>
       ELSE /\ nSteps' = nSteps + 1
            /\ pc' = Flow("outputRow")
  /\ UNCHANGED << args, ci, c, files, time, status, fmiFlag, svFrom, svTo,
                  val, calls, diag, ret, exitCode >>

\* One pass of the output loop, outputRow(fmus[i], c[i], time, files[i],
\* separator, FALSE), and nSteps++ after its last pass.
OutputRows ==
  /\ pc = "outputRow"
  /\ i < N
  /\ rows' = [rows EXCEPT ![i] = Append(@, outputRow(i, time, FALSE))]
  /\ i' = i + 1
  /\ IF i + 1 < N
       THEN UNCHANGED << pc, nSteps >>
       ELSE /\ nSteps' = nSteps + 1
            /\ pc' = Flow("outputRow")
  /\ UNCHANGED << args, ci, c, files, time, status, fmiFlag, svFrom, svTo,
                  val, calls, diag, ret, exitCode >>

\* ------------------------------------------------ simulate: end simulation
\* One pass of the end loop: fmiFlag = fmus[i]->terminateSlave(c[i]);
\* fmus[i]->freeSlaveInstance(c[i]);
EndSimulation ==
  /\ pc = "terminate"
  /\ i < N
  /\ \E flag \in {fmiOK, fmiError} :
        /\ fmiFlag' = flag
        /\ calls' = calls \o << Call("terminateSlave", i, 0, 0, flag),
                                Call("freeSlaveInstance", i, 0, 0, fmiOK) >>
  /\ i' = i + 1
  /\ pc' = IF i + 1 < N THEN "terminate" ELSE "summary"
  /\ UNCHANGED << args, ci, c, files, time, status, nSteps, svFrom, svTo,
                  val, rows, diag, ret, exitCode >>

\* The simulation summary, fclose(files[i]) for every i, return 1.
Summary ==
  /\ pc = "summary"
  /\ diag' = Append(diag, "Simulation terminated successful")
  /\ files' = [j \in Comps |-> "closed"]
  /\ ret' = 1
  /\ pc' = "returned"
  /\ UNCHANGED << args, i, ci, c, time, status, fmiFlag, nSteps, svFrom, svTo,
                  val, rows, calls, exitCode >>

\* -------------------------------------------------------------------- main
\* simulate(...) has returned, its value is dropped; the FMUs are released
\* and main returns EXIT_SUCCESS.
MainReturn ==
  /\ pc = "returned"
  /\ exitCode' = EXIT_SUCCESS
  /\ pc' = "exit"
  /\ UNCHANGED << args, i, ci, c, files, time, status, fmiFlag, nSteps, svFrom, svTo,
                  val, rows, calls, diag, ret >>

Next ==
  \/ InstantiateSlave
  \/ OpenResultFile
  \/ InitializeSlave
  \/ OutputInitialRows
  \/ EnterLoop
  \/ LoopTest
  \/ Exchange
  \/ DoStep
  \/ Advance
  \/ OutputRows
  \/ EndSimulation
  \/ Summary
  \/ MainReturn

Spec == Init /\ [][Next]_vars

\* ================================================================= claims
\* Vocabulary of the claims, read off the call log.
Getters == {"getReal", "getInteger", "getBoolean", "getString"}
Setters == {"setReal", "setInteger", "setBoolean", "setString"}
CallsOf(ops, comp) == {p \in DOMAIN calls : calls[p].op \in ops /\ calls[p].c = comp}
CallsOfAny(ops) == {p \in DOMAIN calls : calls[p].op \in ops}

Instantiated(comp) == c[comp] # NULL
NullHandle == \E p \in CallsOfAny({"instantiateSlave"}) : calls[p].res = NULL
FileNotOpened == \E p \in CallsOfAny({"fopen"}) : calls[p].res = NULL
InitializeRejected == \E p \in CallsOfAny({"initializeSlave"}) : calls[p].res > fmiWarning
StepRejected == \E p \in CallsOfAny({"doStep"}) : calls[p].res # fmiOK
FatalCondition == NullHandle \/ FileNotOpened \/ InitializeRejected \/ StepRejected
SimulateReturned == pc \in {"returned", "exit"}

\* C1: when simulate has returned, however it ended, every slave whose
\* instantiateSlave gave a non-null handle has been terminated exactly once
\* and then freed exactly once.
C1_UnconditionalCleanup ==
  SimulateReturned =>
    \A j \in Comps :
      Instantiated(j) =>
        /\ Cardinality(CallsOf({"terminateSlave"}, j)) = 1
        /\ Cardinality(CallsOf({"freeSlaveInstance"}, j)) = 1
        /\ \A p \in CallsOf({"terminateSlave"}, j), q \in CallsOf({"freeSlaveInstance"}, j) :
              p < q

\* C2: when main has returned, its value is a failure whenever the run met a
\* fatal condition (null handle, result file not opened, initialize worse
\* than Warning, a step status other than OK), and success only otherwise.
C2_OutcomePropagation ==
  pc = "exit" => (exitCode = EXIT_SUCCESS <=> ~FatalCondition)

\* Resolution of an endpoint as the claims word it: the first descriptor of
\* the table with alias kind none and that value reference (0 when none).
RECURSIVE FirstMatch(_, _, _)
FirstMatch(tab, vr, k) ==
  IF k > Len(tab) THEN 0
  ELSE IF tab[k].alias = enu_noAlias /\ tab[k].vr = vr THEN k
  ELSE FirstMatch(tab, vr, k + 1)

SrcDesc(cn) == FirstMatch(md[ConnFmuFrom(cn)], ConnVrFrom(cn), 1)
DstDesc(cn) == FirstMatch(md[ConnFmuTo(cn)], ConnVrTo(cn), 1)
SrcType(cn) == md[ConnFmuFrom(cn)][SrcDesc(cn)].type
DstType(cn) == md[ConnFmuTo(cn)][DstDesc(cn)].type
BothResolve(cn) == SrcDesc(cn) # 0 /\ DstDesc(cn) # 0
TypeMismatch(cn) == BothResolve(cn) /\ SrcType(cn) # DstType(cn)
SameType(cn) == BothResolve(cn) /\ SrcType(cn) = DstType(cn)

\* The step of the run that applies connection ci.
AppliesConnection == pc = "exchange" /\ ci < M /\ ci' = ci + 1
RunGoesOn == pc' \in {"exchange", "doStep"} /\ ret' = ret

\* C3: applying a connection whose two endpoints resolve to descriptors of
\* different types prints a diagnostic, calls no setter (no slave value
\* changes) and lets the run go on to the next connection or to the steps.
C3_TypeMismatchSkipped ==
  [][ (AppliesConnection /\ TypeMismatch(ci)) =>
        /\ Len(diag') > Len(diag)
        /\ calls' = calls
        /\ val' = val
        /\ RunGoesOn ]_vars

\* C4: once a doStep has returned a status other than fmiOK (fmiWarning
\* included), no further call is made on any slave (no step, no get/set), no
\* row is written and the rows written before stay as they are.
C4_StepFailureHalts ==
  [][ StepRejected => (calls' = calls /\ rows' = rows /\ val' = val) ]_vars

\* C4 witness: slave 0 of two was stepped with fmiWarning in the second
\* interval, after rows of the first interval were written, and main returned.
C4_Witness ==
  /\ pc = "exit"
  /\ N = 2
  /\ nSteps = 1
  /\ calls[Len(calls)].op = "doStep"
  /\ calls[Len(calls)].res = fmiWarning
  /\ calls[Len(calls)].c = 0
  /\ Len(rows[1]) = 3

\* C5, order: a get/set of interval T precedes every step of interval T and
\* of later intervals, and a step of interval T precedes every get/set of
\* later intervals.
PhaseOrder ==
  \A p \in CallsOfAny(Getters \cup Setters), q \in CallsOfAny({"doStep"}) :
     /\ calls[p].n <= calls[q].n => p < q
     /\ calls[p].n > calls[q].n => q < p

\* C5, delay: the value a connection of interval T hands to the target is the
\* source's current value, read when the source has completed exactly T steps
\* (before its own step of interval T).
PreStepValue ==
  (AppliesConnection /\ calls' # calls) =>
     LET e == calls'[Len(calls')] IN
       /\ e.op \in Setters
       /\ e.n = nSteps
       /\ e.b = GetValue(val, ConnFmuFrom(ci), Family(md[ConnFmuFrom(ci)][svFrom'].type),
                         ConnVrFrom(ci))
       /\ Cardinality(CallsOf({"doStep"}, ConnFmuFrom(ci))) = nSteps

\* C5: the exchange phase of an interval comes before its step phase, the
\* step phase before the next interval's exchange phase, so targets receive
\* pre-step values.
C5_PhaseOrdering == []PhaseOrder /\ [][PreStepValue]_vars

\* C5 witness: in the second interval a value that the source's first step
\* changed has been handed over, and the steps of that interval have begun.
C5_Witness ==
  /\ pc = "doStep"
  /\ i = 1
  /\ nSteps = 1
  /\ \E p \in CallsOfAny(Setters), q \in CallsOfAny(Setters) :
        /\ calls[p].n = 0
        /\ calls[q].n = 1
        /\ calls[p].c = calls[q].c
        /\ calls[p].a = calls[q].a
        /\ calls[p].b # calls[q].b

\* C6: the clock is tStart + K * h after K complete iterations; the loop body
\* runs only while time < tEnd; and the loop is left, all steps being fmiOK,
\* at the first K with tStart + K * h >= tEnd.
C6_ClockCorrectness ==
  /\ pc \in {"loop", "exchange", "doStep", "advance", "terminate", "summary"}
       => time = tStart + nSteps * h
  /\ pc = "outputRow" => time = tStart + (nSteps + 1) * h
  /\ pc \in {"exchange", "doStep", "advance"} => time < tEnd
  /\ (pc \in {"terminate", "summary"} \/ (SimulateReturned /\ ret = 1))
       => /\ time = tStart + nSteps * h
          /\ time >= tEnd
          /\ \A K \in 0..(nSteps - 1) : tStart + K * h < tEnd

\* C6 witness: a run with tEnd not a multiple of h has left the loop after
\* two iterations.
C6_Witness ==
  /\ pc = "terminate"
  /\ h = 2
  /\ tEnd = 3
  /\ nSteps = 2
  /\ time = 4

\* C7: applying a connection whose endpoints resolve to descriptors of one
\* and the same type calls the getter of that type's family on the source
\* and then the setter of the same family on the target (Integer and
\* Enumeration both the integer pair), and afterwards the target's variable
\* vrTo holds what the source's variable vrFrom held before.
C7_ValueTransfer ==
  [][ (AppliesConnection /\ SameType(ci)) =>
        LET fam == Family(SrcType(ci))
            x == GetValue(val, ConnFmuFrom(ci), fam, ConnVrFrom(ci))
        IN  /\ fam = (IF SrcType(ci) \in {elm_Integer, elm_Enumeration}
                        THEN "Integer" ELSE SrcType(ci))
            /\ calls' = calls \o
                 << Call("get" \o fam, ConnFmuFrom(ci), ConnVrFrom(ci), x, fmiOK),
                    Call("set" \o fam, ConnFmuTo(ci), ConnVrTo(ci), x, fmiOK) >>
            /\ GetValue(val', ConnFmuTo(ci), fam, ConnVrTo(ci)) = x ]_vars

\* C7 witness: the single connection, from an Enumeration to an Enumeration,
\* has just been applied through the integer pair, and the target holds a
\* value other than its start value.
C7_Witness ==
  /\ pc = "doStep"
  /\ i = 0
  /\ M = 1
  /\ SameType(0)
  /\ SrcType(0) = elm_Enumeration
  /\ Len(calls) >= 2
  /\ calls[Len(calls)].op = "setInteger"
  /\ calls[Len(calls) - 1].op = "getInteger"
  /\ calls[Len(calls)].b # StartVal(ConnFmuTo(0), << "Integer", ConnVrTo(0) >>)
  /\ GetValue(val, ConnFmuTo(0), "Integer", ConnVrTo(0)) = calls[Len(calls)].b

\* C8: applying a connection one of whose endpoints does not resolve (no
\* non-alias descriptor with vrFrom in the source table, or none with vrTo in
\* the target table) calls neither a getter nor a setter, and the run goes on.
C8_UnresolvedSkipped ==
  [][ (AppliesConnection /\ ~BothResolve(ci)) =>
        /\ calls' = calls
        /\ val' = val
        /\ RunGoesOn ]_vars

\* The state right after a connection was applied: ci - 1 is that connection.
JustExchanged == ci > 0 /\ (pc = "exchange" \/ (pc = "doStep" /\ i = 0))

\* C9: the descriptors a connection scan selects for the source and for the
\* target are never aliases or negated aliases, and the getter/setter pair
\* used is the one of the selected non-alias source descriptor's type.
C9_AliasFilter ==
  (JustExchanged /\ svFrom # 0) =>
     LET from == md[ConnFmuFrom(ci - 1)][svFrom]
         to == md[ConnFmuTo(ci - 1)][svTo]
     IN  /\ from.alias = enu_noAlias
         /\ svTo # 0
         /\ to.alias = enu_noAlias
         /\ calls[Len(calls) - 1].op = "get" \o Family(from.type)
         /\ calls[Len(calls)].op = "set" \o Family(from.type)

\* C9 witness: in both tables an alias or negated alias of another type
\* precedes the selected descriptor, the source's with the connection's
\* value reference.
C9_Witness ==
  /\ JustExchanged
  /\ svFrom > 1
  /\ svTo > 1
  /\ LET tabFrom == md[ConnFmuFrom(ci - 1)]
         tabTo == md[ConnFmuTo(ci - 1)]
     IN  /\ tabFrom[1].alias # enu_noAlias
         /\ tabFrom[1].vr = ConnVrFrom(ci - 1)
         /\ tabFrom[1].type # tabFrom[svFrom].type
         /\ tabTo[1].alias # enu_noAlias
         /\ tabTo[1].type # tabTo[svTo].type

\* C10: every instantiateSlave call precedes every initializeSlave call, and
\* in a run where an instantiateSlave returned a null handle no slave has been
\* initialized, no result row has been written, and no get/set or step has
\* been made.
C10_InstantiateBeforeInitialize ==
  /\ \A p \in CallsOfAny({"instantiateSlave"}), q \in CallsOfAny({"initializeSlave"}) : p < q
  /\ NullHandle =>
       /\ CallsOfAny({"initializeSlave", "doStep"} \cup Getters \cup Setters) = {}
       /\ \A j \in Comps : rows[j] = << >>

\* Positions of the run: inside the loop, and past it on the normal path.
InLoop == pc \in {"loop", "exchange", "doStep", "advance", "outputRow"}
PastLoop == pc \in {"terminate", "summary"} \/ (SimulateReturned /\ ret = 1)
InitializeCalls == CallsOfAny({"initializeSlave"})

\* C11: slaves are initialized in index order; after an initializeSlave status
\* worse than fmiWarning the loop is never entered and no get/set or step is
\* made; and when all N slaves have returned fmiOK or fmiWarning the run goes
\* on to the loop (it fails later only through a step).
C11_InitializationThreshold ==
  /\ \A p \in InitializeCalls :
        calls[p].c = Cardinality({q \in InitializeCalls : q < p})
  /\ InitializeRejected =>
        /\ ~InLoop /\ ~PastLoop /\ pc # "enterLoop"
        /\ CallsOfAny({"doStep"} \cup Getters \cup Setters) = {}
  /\ (Cardinality(InitializeCalls) = N /\ ~InitializeRejected) =>
        \/ pc \in {"outputRow0", "enterLoop"}
        \/ InLoop
        \/ PastLoop
        \/ (SimulateReturned /\ StepRejected)

\* C11 witness: slave 0 returned fmiWarning and slave 1 fmiOK from
\* initializeSlave, and the first interval's exchange is under way.
C11_Witness ==
  /\ pc = "exchange"
  /\ N = 2
  /\ \E p \in InitializeCalls, q \in InitializeCalls :
        /\ calls[p].c = 0 /\ calls[p].res = fmiWarning
        /\ calls[q].c = 1 /\ calls[q].res = fmiOK

\* Stage of a slave's life that a call belongs to.
Stage(op) ==
  CASE op = "instantiateSlave" -> 0
    [] op = "initializeSlave" -> 1
    [] op \in Getters \cup Setters \cup {"doStep"} -> 2
    [] op = "terminateSlave" -> 3
    [] op = "freeSlaveInstance" -> 4
    [] OTHER -> 5

SlaveOps == {"instantiateSlave", "initializeSlave", "doStep", "terminateSlave",
             "freeSlaveInstance"} \cup Getters \cup Setters

\* C12: for every slave the calls on it come in the order instantiate (once),
\* initialize (at most once), any number of get/set/step, terminate (at most
\* once), free (at most once); every later call follows an instantiate that
\* gave a handle, every get/set/step follows an initialize that returned fmiOK
\* or fmiWarning, and nothing follows terminate or free but free itself.
C12_LifecycleOrder ==
  \A j \in Comps :
    LET P == CallsOf(SlaveOps, j) IN
      /\ \A p \in P, q \in P :
            p < q => \/ Stage(calls[p].op) < Stage(calls[q].op)
                     \/ Stage(calls[p].op) = 2 /\ Stage(calls[q].op) = 2
      /\ \A q \in P :
            Stage(calls[q].op) >= 1 =>
              \E p \in P : p < q /\ calls[p].op = "instantiateSlave" /\ calls[p].res # NULL
      /\ \A q \in P :
            Stage(calls[q].op) = 2 =>
              \E p \in P : p < q /\ calls[p].op = "initializeSlave"
                                 /\ calls[p].res \in {fmiOK, fmiWarning}

\* C12 witness: a run of two slaves with a connection between them completed
\* two intervals, and both slaves were terminated and freed.
C12_Witness ==
  /\ pc = "exit"
  /\ ret = 1
  /\ N = 2
  /\ nSteps = 2
  /\ CallsOfAny(Setters) # {}
  /\ \A j \in Comps : CallsOf({"freeSlaveInstance"}, j) # {}

\* A result file that holds the header and then k value rows, at the times
\* tStart, tStart + h, ..., tStart + (k - 1) * h.
HeaderAndRows(f, k) ==
  /\ Len(f) = k + 1
  /\ f[1].header
  /\ \A r \in 2..(k + 1) : ~f[r].header /\ f[r].t = tStart + (r - 2) * h

\* C13: once the loop is reached every result file holds the header, the
\* row at tStart and one row per completed iteration, with the advanced time;
\* this stays so when the loop is left, also through a failed step (the
\* failed interval adds no row to any file); while the output loop runs, the
\* files of the slaves already passed hold one row more.
C13_ResultRows ==
  /\ (pc \in {"loop", "exchange", "doStep", "advance"} \/ PastLoop
        \/ (SimulateReturned /\ StepRejected))
       => \A j \in Comps : HeaderAndRows(rows[j], nSteps + 1)
  /\ pc = "outputRow"
       => \A j \in Comps : HeaderAndRows(rows[j], IF j < i THEN nSteps + 2 ELSE nSteps + 1)
  /\ pc \in {"enterLoop", "loop"} /\ nSteps = 0
       => \A j \in Comps : HeaderAndRows(rows[j], 1)

\* C13 witness: h = 1, tEnd = 3, the run of two slaves ended normally and
\* each file holds the header and 4 rows, at 0, 1, 2, 3.
C13_Witness ==
  /\ pc = "exit"
  /\ ret = 1
  /\ N = 2
  /\ h = 1
  /\ tEnd = 3
  /\ \A j \in Comps :
        /\ Len(rows[j]) = 5
        /\ rows[j][5].t = 3

\* C14: in a run where the result file of some slave could not be opened,
\* simulate has returned failure at once: no slave is stepped and no get/set
\* is made, in that state or any later one.
C14_OutputOpenFailureFatal ==
  FileNotOpened =>
    /\ SimulateReturned
    /\ ret = 0
    /\ calls[Len(calls)].op = "fopen"
    /\ CallsOfAny({"doStep"} \cup Getters \cup Setters) = {}

\* C14 witness: the file of slave 0 opened, the file of slave 1 did not, and
\* main has returned.
C14_Witness ==
  /\ pc = "exit"
  /\ N = 2
  /\ files[0] = "file"
  /\ files[1] = NULL
  /\ c[1] # NULL
  /\ FileNotOpened

\* The connections the loop transfers: the source has a non-alias descriptor
\* with vrFrom and the target table has a non-alias descriptor.
HasNonAlias(tab) == \E l \in DOMAIN tab : tab[l].alias = enu_noAlias
Transferred(cn) == SrcDesc(cn) # 0 /\ HasNonAlias(md[ConnFmuTo(cn)])
TransferredBelow(k) == {cn \in 0..(k - 1) : Transferred(cn)}

\* Number of connections applied so far in interval T.
AppliedIn(T) ==
  IF T < nSteps THEN M
  ELSE IF pc = "exchange" THEN ci
  ELSE IF pc \in {"doStep", "advance", "outputRow"} \/ (SimulateReturned /\ StepRejected)
    THEN M
  ELSE 0

CallsIn(ops, T) == {p \in CallsOfAny(ops) : calls[p].n = T}

\* C15, per step: applying a transferred connection makes exactly one getter
\* call, on the source slave, and then exactly one setter call, on the target
\* slave; applying any other connection makes no call.
OnePairPerConnection ==
  AppliesConnection =>
    IF Transferred(ci)
      THEN /\ Len(calls') = Len(calls) + 2
           /\ SubSeq(calls', 1, Len(calls)) = calls
           /\ calls'[Len(calls) + 1].op \in Getters
           /\ calls'[Len(calls) + 1].c = ConnFmuFrom(ci)
           /\ calls'[Len(calls) + 2].op \in Setters
           /\ calls'[Len(calls) + 2].c = ConnFmuTo(ci)
      ELSE calls' = calls

\* C15, per iteration: the getter calls of an interval are as many as the
\* transferred connections applied in it, and so are the setter calls.
OnePairPerIteration ==
  \A T \in 0..nSteps :
    /\ Cardinality(CallsIn(Getters, T)) = Cardinality(TransferredBelow(AppliedIn(T)))
    /\ Cardinality(CallsIn(Setters, T)) = Cardinality(TransferredBelow(AppliedIn(T)))

\* C15: one get/set pair per transferred connection per loop iteration, also
\* when the tables hold several non-alias descriptors or a value reference
\* twice: the scan stops at the first match.
C15_OnePairPerConnection == []OnePairPerIteration /\ [][OnePairPerConnection]_vars

\* C15 witness: the source table holds value reference 1 twice, as Integer
\* and as Real, both non-alias, the target table holds two non-alias
\* descriptors, and the single connection made one pair of calls.
C15_Witness ==
  /\ pc = "doStep"
  /\ i = 0
  /\ M = 1
  /\ md[0] = << SV(1, elm_Integer, enu_noAlias), SV(1, elm_Real, enu_noAlias) >>
  /\ Len(md[1]) >= 2
  /\ \A l \in DOMAIN md[1] : md[1][l].alias = enu_noAlias
  /\ ConnVrFrom(0) = 1
  /\ Cardinality(CallsOfAny(Getters)) = 1
  /\ Cardinality(CallsOfAny(Setters)) = 1
  /\ calls[Len(calls) - 1].op = "getInteger"

StepCalls == CallsOfAny({"doStep"})
StepsOfIn(comp, T) == {p \in StepCalls : calls[p].c = comp /\ calls[p].n = T}

\* C16: the steps of one interval are made in strictly increasing slave index
\* (so each slave at most once), every step of interval T is called with the
\* time tStart + T * h the interval started at and with h, and when the
\* clock is about to advance, and in every completed interval, each slave was
\* stepped exactly once, with fmiOK.
C16_StepOrderAndArguments ==
  /\ \A p \in StepCalls, q \in StepCalls :
        (p < q /\ calls[p].n = calls[q].n) => calls[p].c < calls[q].c
  /\ \A p \in StepCalls :
        /\ calls[p].a = tStart + calls[p].n * h
        /\ calls[p].b = h
        /\ (pc = "doStep" /\ calls[p].n = nSteps) => calls[p].a = time
  /\ \A T \in 0..nSteps :
        (T < nSteps \/ pc \in {"advance", "outputRow"}) =>
           \A j \in Comps :
              /\ Cardinality(StepsOfIn(j, T)) = 1
              /\ \A p \in StepsOfIn(j, T) : calls[p].res = fmiOK

\* C16 witness: in the second interval of a run of two slaves with h = 2 both
\* slaves were stepped, and the clock has not advanced yet.
C16_Witness ==
  /\ pc = "advance"
  /\ N = 2
  /\ h = 2
  /\ nSteps = 1
  /\ time = 2
  /\ \A j \in Comps : \E p \in StepsOfIn(j, 1) : calls[p].a = 2 /\ calls[p].b = 2

\* C17: the clock never decreases, and every run leaves the loop after
\* finitely many iterations whatever tEnd and h are: stated on single steps,
\* no step of the run lowers time, and each advance of the clock made while
\* the loop condition held leaves less time to go until tEnd than before.
C17_TerminationAndMonotonicity ==
  [][ /\ time' >= time
      /\ pc = "advance" => tEnd - time' < tEnd - time ]_vars

\* The last doStep call and the last row of a file.
LastStep == calls[CHOOSE p \in StepCalls : \A q \in StepCalls : q <= p]
LastRow(j) == rows[j][Len(rows[j])]

\* What C18 says of a run with a positive step: steps start below tEnd and
\* are made with the full h; after a fully successful run the clock is in
\* [tEnd, tEnd + h); and when tEnd - tStart is no multiple of h the last step
\* and the last row of every file reach past tEnd.
Overshoot ==
  /\ \A p \in StepCalls : calls[p].a < tEnd /\ calls[p].b = h
  /\ PastLoop => (tEnd <= time /\ time < tEnd + h)
  /\ (PastLoop /\ (tEnd - tStart) % h # 0) =>
        /\ StepCalls # {}
        /\ LastStep.a + LastStep.b > tEnd
        /\ \A j \in Comps : LastRow(j).t > tEnd

\* C18 as claimed: Overshoot holds in every run with h > 0.
C18_OvershootAnyEndTime == h > 0 => Overshoot

\* C18 as amended: Overshoot holds in every run with h > 0 and tEnd >= tStart.
C18_Overshoot == (h > 0 /\ tEnd >= tStart) => Overshoot

\* C18 witness: h = 2 and tEnd = 3; the run ended normally, the last step
\* was made at 2 with step size 2, the clock and the last rows show 4.
C18_Witness ==
  /\ pc = "exit"
  /\ ret = 1
  /\ N = 2
  /\ h = 2
  /\ tEnd = 3
  /\ time = 4
  /\ LastStep.a = 2
  /\ LastStep.b = 2
  /\ \A j \in Comps : LastRow(j).t = 4

\* The steps slave comp has completed (doStep returned fmiOK).
StepsDone(comp) == {p \in StepCalls : calls[p].c = comp /\ calls[p].res = fmiOK}

\* C19: once a step of slave e.c has been rejected in interval e.n, the
\* rejected call is the only rejected step and the last call the master ever
\* makes (nothing is retried, rolled back or cleaned up), the slaves before
\* e.c have completed e.n + 1 steps and the slaves from e.c on only e.n, the
\* clock still shows tStart + e.n * h, and simulate returns failure.
C19_PartialInterval ==
  StepRejected =>
    LET e == calls[Len(calls)]
    IN  /\ e.op = "doStep"
        /\ e.res # fmiOK
        /\ \A p \in StepCalls : calls[p].res # fmiOK => p = Len(calls)
        /\ \A j \in Comps :
              Cardinality(StepsDone(j)) = IF j < e.c THEN e.n + 1 ELSE e.n
        /\ time = tStart + e.n * h
        /\ nSteps = e.n
        /\ SimulateReturned
        /\ ret = 0

\* C19 witness: of two slaves the second rejects its step in the second
\* interval; the first has completed two steps of size h > 0, the second one.
C19_Witness ==
  /\ StepRejected
  /\ N = 2
  /\ h > 0
  /\ calls[Len(calls)].c = 1
  /\ calls[Len(calls)].n = 1
  /\ Cardinality(StepsDone(0)) = 2
  /\ Cardinality(StepsDone(1)) = 1
  /\ time = tStart + h

\* Setter call q writes the variable that getter call p reads.
WritesWhatReads(q, p) ==
  /\ calls[q].c = calls[p].c
  /\ calls[q].a = calls[p].a
  /\ \E fam \in Families : calls[q].op = "set" \o fam /\ calls[p].op = "get" \o fam

\* Setter calls q and r write the same variable.
SameTarget(q, r) ==
  /\ calls[q].c = calls[r].c
  /\ calls[q].a = calls[r].a
  /\ calls[q].op = calls[r].op

\* The setter calls made before call p in the interval of p that wrote the
\* variable getter p reads.
WritersBefore(p) ==
  {q \in CallsOfAny(Setters) : q < p /\ calls[q].n = calls[p].n /\ WritesWhatReads(q, p)}

\* C20, list order: each pass of the connection loop handles connection ci,
\* the next one of the list; the calls it makes read ConnVrFrom(ci) of
\* ConnFmuFrom(ci) and write ConnVrTo(ci) of ConnFmuTo(ci).
ListOrder ==
  (AppliesConnection /\ Transferred(ci)) =>
    /\ Len(calls') = Len(calls) + 2
    /\ calls'[Len(calls) + 1].c = ConnFmuFrom(ci)
    /\ calls'[Len(calls) + 1].a = ConnVrFrom(ci)
    /\ calls'[Len(calls) + 2].c = ConnFmuTo(ci)
    /\ calls'[Len(calls) + 2].a = ConnVrTo(ci)
    /\ calls'[Len(calls) + 2].b = calls'[Len(calls) + 1].b

\* C20, no snapshot: a getter reading a variable that a setter wrote earlier
\* in the same exchange phase returns what the latest such setter wrote.
NoSnapshot ==
  \A p \in CallsOfAny(Getters) :
    \A q \in WritersBefore(p) :
      (\A r \in WritersBefore(p) : r <= q) => calls[p].b = calls[q].b

\* C20, last writer wins: when the step phase starts, a variable written in
\* the exchange phase holds what the last setter of the phase wrote to it.
LastWriterWins ==
  (pc = "doStep" /\ i = 0) =>
    \A q \in CallsIn(Setters, nSteps) :
      (\A r \in CallsIn(Setters, nSteps) : SameTarget(q, r) => r <= q) =>
         \E fam \in Families :
           /\ calls[q].op = "set" \o fam
           /\ GetValue(val, calls[q].c, fam, calls[q].a) = calls[q].b

====
